---- MODULE Spec2Model ----
(***************************************************************************)
(* Ownership-scoped schedule service (time-zone-scheduler).                *)
(*                                                                         *)
(* The three tables of src/db/tables.ts and the nine actions of the        *)
(* server object.  Every handler is a sequence of awaited store            *)
(* statements; each statement is applied atomically by the store and the   *)
(* statements of concurrent calls interleave freely.  One step of the      *)
(* model is one store statement together with the synchronous JavaScript   *)
(* around it; a request's arrival is one step with the first statement of  *)
(* its handler (for createSchedule, with the code before its insert).      *)
(***************************************************************************)
EXTENDS Integers, Sequences, FiniteSets, TLC

\* ------------------------------------------------------------- bounds
\* Number of request slots (calls that can be in flight at once).
NumSlots == 2
\* Number of ids crypto.randomUUID() hands out in one behaviour: with one
\* call at a time, and with concurrent calls.
MaxIds == 3
MaxIdsConcurrent == 2
MaxIdsFields == 2
MaxIdsPages == 4
\* Last reading of the wall clock (new Date()); readings are 0..MaxClock.
MaxClock == 1

\* ------------------------------------------------------------- values
\* JavaScript undefined / a present value, for optional fields and inputs.
Undefined == <<>>
Some(v) == <<v>>
IsDefined(x) == x # Undefined
ValueOf(x) == x[1]

\* Ids are strings in the program.  The generated UUIDs are modelled as
\* 1, 2, ...; EmptyString stands for the string "" a caller may pass.
EmptyString == 0

\* JavaScript truthiness of an optional string: undefined and "" are falsy.
Truthy(x) == IsDefined(x) /\ ValueOf(x) # EmptyString

Users == {"u1", "u2"}
\* context.locals.user: absent for an unauthenticated request.
Callers == {Undefined} \cup {Some(u) : u \in Users}

Slots == 1..NumSlots

\* ------------------------------------------------------------- state
VARIABLES
    Schedules,             \* table Schedules: rows in scan (rowid) order
    ScheduleParticipants,  \* table ScheduleParticipants, same
    ScheduleSuggestions,   \* table ScheduleSuggestions, same
    now,                   \* the wall clock read by new Date()
    uuids,                 \* how many ids crypto.randomUUID() has produced
    foreignKeys,           \* whether the store enforces the declared references
    calls                  \* per slot: the call in flight, its position, its result

vars == <<Schedules, ScheduleParticipants, ScheduleSuggestions, now, uuids,
          foreignKeys, calls>>
tables == <<Schedules, ScheduleParticipants, ScheduleSuggestions>>

\* ------------------------------------------------------------- store
Rows(table) == {table[i] : i \in DOMAIN table}
Where(table, Cond(_)) == SelectSeq(table, Cond)
UpdateWhere(table, Cond(_), Set(_)) ==
    [i \in DOMAIN table |-> IF Cond(table[i]) THEN Set(table[i]) ELSE table[i]]
DeleteWhere(table, Cond(_)) == SelectSeq(table, LAMBDA r : ~Cond(r))
\* .offset(o).limit(n) of a result list
OffsetLimit(rows, o, n) ==
    SubSeq(rows, o + 1, IF o + n < Len(rows) THEN o + n ELSE Len(rows))

\* references: () => Schedules.columns.id, when the store enforces it
ParentExists(scheduleId) == \E s \in Rows(Schedules) : s.id = scheduleId
HasChildren(scheduleId) ==
    \/ \E r \in Rows(ScheduleParticipants) : r.scheduleId = scheduleId
    \/ \E r \in Rows(ScheduleSuggestions) : r.scheduleId = scheduleId

\* ------------------------------------------------------------- calls
NoData == [none |-> TRUE]
IdleCall == [op |-> "idle", user |-> Undefined, in |-> NoData, pc |-> "idle",
             since |-> 0, schedule |-> Undefined, loc |-> NoData,
             code |-> "none", data |-> NoData]

\* A response is delivered as soon as its call has ended: while a call is
\* done and not yet returned, nothing else happens.
Quiet == \A p \in Slots : calls[p].pc # "done"
\* The call in slot p waits on statement pc.
At(p, pc) == Quiet /\ calls[p].pc = pc

\* The statements whose values hold a new Date() evaluated after the
\* previous statement returned.
SamplesClock(pc) ==
    pc \in {"update", "insertParticipant", "insertSuggestion", "touch"}

\* A call entering its handler at statement pc.
Start(op, caller, input, pc) ==
    [op |-> op, user |-> caller, in |-> input, pc |-> pc, since |-> 0,
     schedule |-> Undefined, loc |-> NoData, code |-> "none", data |-> NoData]

\* A call that ended: thrown ActionError / store error, or returned success.
Ended(c, code, data) ==
    [c EXCEPT !.pc = "done", !.loc = NoData, !.code = code, !.data = data]

\* The call moves on to statement pc; the clock reading bounds from below
\* every new Date() evaluated before that statement is applied.
Goto(c, pc) == [c EXCEPT !.pc = pc, !.since = IF SamplesClock(pc) THEN now ELSE @]

\* An entry that reports a missing user as a missing schedule.
EnterHidingUnauthorized(op, caller, input, valid, pc) ==
    IF ~valid THEN Ended(Start(op, caller, input, pc), "VALIDATION", NoData)
    ELSE IF caller = Undefined
         THEN Ended(Start(op, caller, input, pc), "NOT_FOUND", NoData)
         ELSE Start(op, caller, input, pc)

\* requireUser, then the handler's first statement; a rejected input or a
\* missing user ends the call at once.
Enter(op, caller, input, valid, pc) ==
    IF ~valid THEN Ended(Start(op, caller, input, pc), "VALIDATION", NoData)
    ELSE IF caller = Undefined
         THEN Ended(Start(op, caller, input, pc), "UNAUTHORIZED", NoData)
         ELSE Start(op, caller, input, pc)

Init ==
    /\ Schedules = <<>>
    /\ ScheduleParticipants = <<>>
    /\ ScheduleSuggestions = <<>>
    /\ now = 0
    /\ uuids = 0
    /\ foreignKeys \in BOOLEAN
    /\ calls = [p \in Slots |-> IdleCall]

\* The wall clock advances.
Tick ==
    /\ Quiet
    /\ now < MaxClock
    /\ now' = now + 1
    /\ UNCHANGED <<tables, uuids, foreignKeys, calls>>

\* The process stops while the call in slot p waits to issue its next
\* statement: the statements already applied stay applied, the rest are
\* never issued, and no response is delivered.
Crash(p) ==
    /\ Quiet
    /\ calls[p].pc \notin {"idle", "done"}
    /\ calls' = [calls EXCEPT ![p] =
          Ended(calls[p], "INTERRUPTED", [stopped |-> calls[p].pc])]
    /\ UNCHANGED <<tables, now, uuids, foreignKeys>>

\* The response of a finished call has been delivered; the slot is free.
Return(p) ==
    /\ calls[p].pc = "done"
    /\ calls' = [calls EXCEPT ![p] = IdleCall]
    /\ UNCHANGED <<tables, now, uuids, foreignKeys>>

\* ------------------------------------------------------------- getOwnedSchedule
\* A cascade that deletes the schedule row first.
DeleteOrderScheduleFirst == <<"deleteSchedule", "deleteSuggestions", "deleteParticipants">>

\* The three deletes of deleteSchedule, in the order the handler awaits them
\* (lines 142-152).
DeleteOrder == <<"deleteSuggestions", "deleteParticipants", "deleteSchedule">>
\* After the delete at pc: the next delete, or the return.
AfterDelete(c) ==
    LET i == CHOOSE k \in DOMAIN DeleteOrder : DeleteOrder[k] = c.pc
    IN  IF i = Len(DeleteOrder) THEN Ended(c, "success", NoData)
        ELSE Goto(c, DeleteOrder[i + 1])

OwnedSchedule(scheduleId, userId) ==
    Where(Schedules, LAMBDA s : s.id = scheduleId /\ s.ownerUserId = userId)

\* The statement a handler issues once getOwnedSchedule has returned; the
\* upserts branch on if (input.id).
AfterGuard(c) ==
    CASE c.op = "updateSchedule" -> "update"
      [] c.op = "deleteSchedule" -> DeleteOrder[1]
      [] c.op = "getScheduleWithDetails" -> "details"
      [] c.op = "upsertParticipant" ->
            IF Truthy(c.in.id) THEN "findParticipant" ELSE "insertParticipant"
      [] c.op = "deleteParticipant" -> "findParticipant"
      [] c.op = "upsertSuggestion" ->
            IF Truthy(c.in.id) THEN "findSuggestion" ELSE "insertSuggestion"
      [] c.op = "deleteSuggestion" -> "findSuggestion"

\* The schedule id a call names: input.id for the schedule-level actions,
\* input.scheduleId for the child-level ones.
TargetId(c) ==
    IF c.op \in {"updateSchedule", "deleteSchedule", "getScheduleWithDetails"}
    THEN c.in.id ELSE c.in.scheduleId

\* A guard that forgets the owner: select by id alone.
GetOwnedScheduleAnyOwner(c) ==
    LET rows == Where(Schedules, LAMBDA s : s.id = TargetId(c))
    IN  IF rows = <<>> THEN Ended(c, "NOT_FOUND", NoData)
        ELSE [Goto(c, AfterGuard(c)) EXCEPT !.schedule = Some(rows[1])]

\* getOwnedSchedule as the first statement of a handler: the call throws
\* NOT_FOUND or goes on holding the row it was given.
GetOwnedSchedule(c) ==
    LET rows == OwnedSchedule(TargetId(c), ValueOf(c.user))
    IN  IF rows = <<>> THEN Ended(c, "NOT_FOUND", NoData)
        ELSE [Goto(c, AfterGuard(c)) EXCEPT !.schedule = Some(rows[1])]

\* A request in slot p: input validation, requireUser, getOwnedSchedule.
Guarded(op, caller, input, valid) ==
    LET c == Enter(op, caller, input, valid, "guard")
    IN  IF c.pc = "done" THEN c ELSE GetOwnedSchedule(c)

\* ------------------------------------------------------------- createSchedule
\* z.string().min(1) / .optional() / z.number().int().positive()
NonEmpty(str) == str # ""
OptNonEmpty(x) == IsDefined(x) => NonEmpty(ValueOf(x))
OptPositive(x) == IsDefined(x) => ValueOf(x) > 0
\* z.string().min(1) on an id
ValidId(id) == id # EmptyString

ValidCreateSchedule(input) ==
    /\ NonEmpty(input.name)
    /\ OptNonEmpty(input.baseTimeZone)
    /\ OptPositive(input.durationMinutes)

\* A row that takes the first id again instead of a new one.
NewScheduleWithFirstId(id, userId, input, at) ==
    [id |-> 1, ownerUserId |-> userId, name |-> input.name,
     description |-> input.description, baseTimeZone |-> input.baseTimeZone,
     durationMinutes |-> input.durationMinutes, createdAt |-> at, updatedAt |-> at]

\* The row createSchedule builds before its insert (lines 63-72).
NewSchedule(id, userId, input, at) ==
    [id |-> id, ownerUserId |-> userId, name |-> input.name,
     description |-> input.description, baseTimeZone |-> input.baseTimeZone,
     durationMinutes |-> input.durationMinutes, createdAt |-> at, updatedAt |-> at]

\* The handler runs to its first await: requireUser, new Date(),
\* crypto.randomUUID(), the row built; the insert is then in flight.
CallCreateSchedule(p, caller, input) ==
    LET c == Enter("createSchedule", caller, input, ValidCreateSchedule(input),
                   "insertSchedule")
    IN  /\ calls[p].pc = "idle"
        /\ IF c.pc = "done"
           THEN calls' = [calls EXCEPT ![p] = c] /\ UNCHANGED uuids
           ELSE /\ uuids' = uuids + 1
                /\ calls' = [calls EXCEPT ![p] = [c EXCEPT !.loc =
                       [schedule |-> NewSchedule(uuids + 1, ValueOf(caller), input, now)]]]
        /\ UNCHANGED <<tables, now, foreignKeys>>

InsertSchedule(p) ==
    LET c == calls[p]
    IN  /\ At(p, "insertSchedule")
        /\ Schedules' = Append(Schedules, c.loc.schedule)
        /\ calls' = [calls EXCEPT ![p] =
              Ended(c, "success", [schedule |-> c.loc.schedule])]
        /\ UNCHANGED <<ScheduleParticipants, ScheduleSuggestions, now, uuids,
                       foreignKeys>>

\* ------------------------------------------------------------- updateSchedule
ValidUpdateSchedule(input) ==
    /\ ValidId(input.id)
    /\ OptNonEmpty(input.name)
    /\ OptNonEmpty(input.baseTimeZone)
    /\ OptPositive(input.durationMinutes)
    /\ \/ IsDefined(input.name)
       \/ IsDefined(input.description)
       \/ IsDefined(input.baseTimeZone)
       \/ IsDefined(input.durationMinutes)

CallUpdateSchedule(p, caller, input) ==
    /\ calls[p].pc = "idle"
    /\ calls' = [calls EXCEPT ![p] =
          Guarded("updateSchedule", caller, input, ValidUpdateSchedule(input))]
    /\ UNCHANGED <<tables, now, uuids, foreignKeys>>

\* An update that writes every field of the input, provided or not.
ApplyUpdateOverwriting(s, input, at) ==
    [s EXCEPT
       !.updatedAt = at,
       !.name = IF IsDefined(input.name) THEN ValueOf(input.name) ELSE @,
       !.description = input.description,
       !.baseTimeZone = input.baseTimeZone,
       !.durationMinutes = input.durationMinutes]

\* updateData applied to one row (lines 107-115): updatedAt, and each field
\* the input provides.
ApplyUpdate(s, input, at) ==
    [s EXCEPT
       !.updatedAt = at,
       !.name = IF IsDefined(input.name) THEN ValueOf(input.name) ELSE @,
       !.description = IF IsDefined(input.description) THEN input.description ELSE @,
       !.baseTimeZone = IF IsDefined(input.baseTimeZone) THEN input.baseTimeZone ELSE @,
       !.durationMinutes =
           IF IsDefined(input.durationMinutes) THEN input.durationMinutes ELSE @]

UpdateScheduleRow(p) ==
    LET c == calls[p]
    IN  /\ At(p, "update")
        /\ \E at \in c.since..now :
              Schedules' = UpdateWhere(Schedules,
                  LAMBDA s : s.id = c.in.id /\ s.ownerUserId = ValueOf(c.user),
                  LAMBDA s : ApplyUpdate(s, c.in, at))
        /\ calls' = [calls EXCEPT ![p] = Goto(c, "reread")]
        /\ UNCHANGED <<ScheduleParticipants, ScheduleSuggestions, now, uuids,
                       foreignKeys>>

\* updated[0]: undefined when the re-read finds no row.
First(rows) == IF rows = <<>> THEN Undefined ELSE Some(rows[1])

RereadSchedule(p) ==
    LET c == calls[p]
    IN  /\ At(p, "reread")
        /\ calls' = [calls EXCEPT ![p] = Ended(c, "success",
              [schedule |-> First(OwnedSchedule(c.in.id, ValueOf(c.user)))])]
        /\ UNCHANGED <<tables, now, uuids, foreignKeys>>

\* ------------------------------------------------------------- deleteSchedule
CallDeleteSchedule(p, caller, input) ==
    /\ calls[p].pc = "idle"
    /\ calls' = [calls EXCEPT ![p] =
          Guarded("deleteSchedule", caller, input, ValidId(input.id))]
    /\ UNCHANGED <<tables, now, uuids, foreignKeys>>

DeleteSuggestionsOf(p) ==
    LET c == calls[p]
    IN  /\ At(p, "deleteSuggestions")
        /\ ScheduleSuggestions' =
              DeleteWhere(ScheduleSuggestions, LAMBDA r : r.scheduleId = c.in.id)
        /\ calls' = [calls EXCEPT ![p] = AfterDelete(c)]
        /\ UNCHANGED <<Schedules, ScheduleParticipants, now, uuids, foreignKeys>>

\* A delete that compares the wrong column: the row id, not scheduleId.
DeleteParticipantsById(p) ==
    LET c == calls[p]
    IN  /\ At(p, "deleteParticipants")
        /\ ScheduleParticipants' =
              DeleteWhere(ScheduleParticipants, LAMBDA r : r.id = c.in.id)
        /\ calls' = [calls EXCEPT ![p] = AfterDelete(c)]
        /\ UNCHANGED <<Schedules, ScheduleSuggestions, now, uuids, foreignKeys>>

DeleteParticipantsOf(p) ==
    LET c == calls[p]
    IN  /\ At(p, "deleteParticipants")
        /\ ScheduleParticipants' =
              DeleteWhere(ScheduleParticipants, LAMBDA r : r.scheduleId = c.in.id)
        /\ calls' = [calls EXCEPT ![p] = AfterDelete(c)]
        /\ UNCHANGED <<Schedules, ScheduleSuggestions, now, uuids, foreignKeys>>

\* The last delete.  A store that enforces the references refuses to delete
\* a schedule row that a child row still points at.
DeleteScheduleRow(p) ==
    LET c == calls[p]
        hit == OwnedSchedule(c.in.id, ValueOf(c.user)) # <<>>
    IN  /\ At(p, "deleteSchedule")
        /\ IF foreignKeys /\ hit /\ HasChildren(c.in.id)
           THEN /\ calls' = [calls EXCEPT ![p] = Ended(c, "STORE_ERROR", NoData)]
                /\ UNCHANGED Schedules
           ELSE /\ Schedules' = DeleteWhere(Schedules,
                       LAMBDA s : s.id = c.in.id /\ s.ownerUserId = ValueOf(c.user))
                /\ calls' = [calls EXCEPT ![p] = AfterDelete(c)]
        /\ UNCHANGED <<ScheduleParticipants, ScheduleSuggestions, now, uuids,
                       foreignKeys>>

\* ------------------------------------------------------------- listMySchedules
DefaultPage == 1
DefaultPageSize == 20
MaxPageSize == 100

\* .default(n)
OrDefault(x, d) == IF IsDefined(x) THEN ValueOf(x) ELSE d

ValidList(input) ==
    /\ OrDefault(input.page, DefaultPage) > 0
    /\ OrDefault(input.pageSize, DefaultPageSize) > 0
    /\ OrDefault(input.pageSize, DefaultPageSize) <= MaxPageSize

\* A select that forgets the owner: every schedule.
OwnedByAnyone(userId) == Schedules

OwnedBy(userId) == Where(Schedules, LAMBDA s : s.ownerUserId = userId)

\* An items select whose offset counts pages from zero.
ListItemsFromPageZero(c) ==
    [Goto(c, "listCount") EXCEPT !.loc =
        [items |-> OffsetLimit(OwnedBy(ValueOf(c.user)),
                               c.in.page * c.in.pageSize, c.in.pageSize)]]

\* The items select, on the parsed input.
ListItems(c) ==
    [Goto(c, "listCount") EXCEPT !.loc =
        [items |-> OffsetLimit(OwnedBy(ValueOf(c.user)),
                               (c.in.page - 1) * c.in.pageSize, c.in.pageSize)]]

\* The parsed input has the defaults filled in.
CallListMySchedules(p, caller, input) ==
    LET c == Enter("listMySchedules", caller,
                   [page |-> OrDefault(input.page, DefaultPage),
                    pageSize |-> OrDefault(input.pageSize, DefaultPageSize)],
                   ValidList(input), "listItems")
    IN  /\ calls[p].pc = "idle"
        /\ calls' = [calls EXCEPT ![p] = IF c.pc = "done" THEN c ELSE ListItems(c)]
        /\ UNCHANGED <<tables, now, uuids, foreignKeys>>

ListCount(p) ==
    LET c == calls[p]
    IN  /\ At(p, "listCount")
        /\ calls' = [calls EXCEPT ![p] = Ended(c, "success",
              [items |-> c.loc.items, total |-> Len(OwnedBy(ValueOf(c.user))),
               page |-> c.in.page, pageSize |-> c.in.pageSize])]
        /\ UNCHANGED <<tables, now, uuids, foreignKeys>>

\* ------------------------------------------------------------- getScheduleWithDetails
CallGetScheduleWithDetails(p, caller, input) ==
    /\ calls[p].pc = "idle"
    /\ calls' = [calls EXCEPT ![p] =
          Guarded("getScheduleWithDetails", caller, input, ValidId(input.id))]
    /\ UNCHANGED <<tables, now, uuids, foreignKeys>>

ParticipantsOf(scheduleId) ==
    Where(ScheduleParticipants, LAMBDA r : r.scheduleId = scheduleId)
SuggestionsOf(scheduleId) ==
    Where(ScheduleSuggestions, LAMBDA r : r.scheduleId = scheduleId)

\* Promise.all of the two selects: the store runs them in either order.
DetailsParticipants(p) ==
    LET c == calls[p]
        got == ParticipantsOf(ValueOf(c.schedule).id)
    IN  /\ Quiet /\ c.pc \in {"details", "detailsParticipants"}
        /\ calls' = [calls EXCEPT ![p] =
              IF c.pc = "details"
              THEN [Goto(c, "detailsSuggestions") EXCEPT !.loc =
                      [participants |-> got]]
              ELSE Ended(c, "success", [schedule |-> ValueOf(c.schedule),
                      participants |-> got, suggestions |-> c.loc.suggestions])]
        /\ UNCHANGED <<tables, now, uuids, foreignKeys>>

DetailsSuggestions(p) ==
    LET c == calls[p]
        got == SuggestionsOf(ValueOf(c.schedule).id)
    IN  /\ Quiet /\ c.pc \in {"details", "detailsSuggestions"}
        /\ calls' = [calls EXCEPT ![p] =
              IF c.pc = "details"
              THEN [Goto(c, "detailsParticipants") EXCEPT !.loc =
                      [suggestions |-> got]]
              ELSE Ended(c, "success", [schedule |-> ValueOf(c.schedule),
                      participants |-> c.loc.participants, suggestions |-> got])]
        /\ UNCHANGED <<tables, now, uuids, foreignKeys>>

\* ------------------------------------------------------------- touchScheduleUpdatedAt
AfterTouch(c) ==
    CASE c.op = "upsertParticipant" -> "rereadParticipants"
      [] c.op = "upsertSuggestion" -> "rereadSuggestions"
      [] OTHER -> "done"

\* update Schedules set updatedAt = new Date() where id = scheduleId; the
\* deletes return right after it.
TouchScheduleUpdatedAt(p) ==
    LET c == calls[p]
    IN  /\ At(p, "touch")
        /\ \E at \in c.since..now :
              Schedules' = UpdateWhere(Schedules,
                  LAMBDA s : s.id = c.in.scheduleId,
                  LAMBDA s : [s EXCEPT !.updatedAt = at])
        /\ calls' = [calls EXCEPT ![p] =
              IF AfterTouch(c) = "done" THEN Ended(c, "success", NoData)
              ELSE Goto(c, AfterTouch(c))]
        /\ UNCHANGED <<ScheduleParticipants, ScheduleSuggestions, now, uuids,
                       foreignKeys>>

\* ------------------------------------------------------------- upsertParticipant
ValidUpsertParticipant(input) ==
    /\ ValidId(input.scheduleId)
    /\ NonEmpty(input.name)
    /\ NonEmpty(input.timeZone)

CallUpsertParticipant(p, caller, input) ==
    /\ calls[p].pc = "idle"
    /\ calls' = [calls EXCEPT ![p] =
          Guarded("upsertParticipant", caller, input, ValidUpsertParticipant(input))]
    /\ UNCHANGED <<tables, now, uuids, foreignKeys>>

\* The child id a call names.
ParticipantId(c) ==
    IF c.op = "upsertParticipant" THEN ValueOf(c.in.id) ELSE c.in.participantId

\* A lookup that forgets the schedule: select by id alone.
FindParticipantById(p) ==
    LET c == calls[p]
        existing == Where(ScheduleParticipants, LAMBDA r : r.id = ParticipantId(c))
    IN  /\ At(p, "findParticipant")
        /\ calls' = [calls EXCEPT ![p] =
              IF existing = <<>> THEN Ended(c, "NOT_FOUND", NoData)
              ELSE Goto(c, IF c.op = "upsertParticipant" THEN "updateParticipant"
                           ELSE "deleteParticipant")]
        /\ UNCHANGED <<tables, now, uuids, foreignKeys>>

\* The select by id and scheduleId of upsertParticipant and deleteParticipant.
FindParticipant(p) ==
    LET c == calls[p]
        existing == Where(ScheduleParticipants,
            LAMBDA r : r.id = ParticipantId(c) /\ r.scheduleId = c.in.scheduleId)
    IN  /\ At(p, "findParticipant")
        /\ calls' = [calls EXCEPT ![p] =
              IF existing = <<>> THEN Ended(c, "NOT_FOUND", NoData)
              ELSE Goto(c, IF c.op = "upsertParticipant" THEN "updateParticipant"
                           ELSE "deleteParticipant")]
        /\ UNCHANGED <<tables, now, uuids, foreignKeys>>

\* An update whose where clause forgets the id.
UpdateParticipantsOfSchedule(p) ==
    LET c == calls[p]
    IN  /\ At(p, "updateParticipant")
        /\ ScheduleParticipants' = UpdateWhere(ScheduleParticipants,
              LAMBDA r : r.scheduleId = c.in.scheduleId,
              LAMBDA r : [r EXCEPT !.name = c.in.name, !.timeZone = c.in.timeZone,
                                   !.availabilityJson = c.in.availabilityJson])
        /\ calls' = [calls EXCEPT ![p] = Goto(c, "touch")]
        /\ UNCHANGED <<Schedules, ScheduleSuggestions, now, uuids, foreignKeys>>

UpdateParticipant(p) ==
    LET c == calls[p]
    IN  /\ At(p, "updateParticipant")
        /\ ScheduleParticipants' = UpdateWhere(ScheduleParticipants,
              LAMBDA r : r.id = ValueOf(c.in.id) /\ r.scheduleId = c.in.scheduleId,
              LAMBDA r : [r EXCEPT !.name = c.in.name, !.timeZone = c.in.timeZone,
                                   !.availabilityJson = c.in.availabilityJson])
        /\ calls' = [calls EXCEPT ![p] = Goto(c, "touch")]
        /\ UNCHANGED <<Schedules, ScheduleSuggestions, now, uuids, foreignKeys>>

\* A row that takes the schedule's id for its own.
NewParticipantWithParentId(id, input, at) ==
    [id |-> input.scheduleId, scheduleId |-> input.scheduleId, name |-> input.name,
     timeZone |-> input.timeZone, availabilityJson |-> input.availabilityJson,
     createdAt |-> at]

NewParticipant(id, input, at) ==
    [id |-> id, scheduleId |-> input.scheduleId, name |-> input.name,
     timeZone |-> input.timeZone, availabilityJson |-> input.availabilityJson,
     createdAt |-> at]

\* A store that enforces the references refuses a child row whose
\* scheduleId names no schedule row.
InsertParticipant(p) ==
    LET c == calls[p]
    IN  /\ At(p, "insertParticipant")
        /\ uuids' = uuids + 1
        /\ IF foreignKeys /\ ~ParentExists(c.in.scheduleId)
           THEN /\ calls' = [calls EXCEPT ![p] = Ended(c, "STORE_ERROR", NoData)]
                /\ UNCHANGED ScheduleParticipants
           ELSE /\ \E at \in c.since..now :
                     ScheduleParticipants' = Append(ScheduleParticipants,
                         NewParticipant(uuids + 1, c.in, at))
                /\ calls' = [calls EXCEPT ![p] = Goto(c, "touch")]
        /\ UNCHANGED <<Schedules, ScheduleSuggestions, now, foreignKeys>>

\* A re-read that returns the affected record alone, not the collection.
RereadLastParticipant(p) ==
    LET c == calls[p]
        rows == ParticipantsOf(c.in.scheduleId)
    IN  /\ At(p, "rereadParticipants")
        /\ calls' = [calls EXCEPT ![p] = Ended(c, "success",
              [participants |-> SubSeq(rows, Len(rows), Len(rows))])]
        /\ UNCHANGED <<tables, now, uuids, foreignKeys>>

RereadParticipants(p) ==
    LET c == calls[p]
    IN  /\ At(p, "rereadParticipants")
        /\ calls' = [calls EXCEPT ![p] = Ended(c, "success",
              [participants |-> ParticipantsOf(c.in.scheduleId)])]
        /\ UNCHANGED <<tables, now, uuids, foreignKeys>>

\* ------------------------------------------------------------- deleteParticipant
CallDeleteParticipant(p, caller, input) ==
    /\ calls[p].pc = "idle"
    /\ calls' = [calls EXCEPT ![p] =
          Guarded("deleteParticipant", caller, input,
                  ValidId(input.scheduleId) /\ ValidId(input.participantId))]
    /\ UNCHANGED <<tables, now, uuids, foreignKeys>>

\* A delete whose where clause forgets the id.
DeleteParticipantsOfSchedule(p) ==
    LET c == calls[p]
    IN  /\ At(p, "deleteParticipant")
        /\ ScheduleParticipants' = DeleteWhere(ScheduleParticipants,
              LAMBDA r : r.scheduleId = c.in.scheduleId)
        /\ calls' = [calls EXCEPT ![p] = Goto(c, "touch")]
        /\ UNCHANGED <<Schedules, ScheduleSuggestions, now, uuids, foreignKeys>>

DeleteParticipantRow(p) ==
    LET c == calls[p]
    IN  /\ At(p, "deleteParticipant")
        /\ ScheduleParticipants' = DeleteWhere(ScheduleParticipants,
              LAMBDA r : r.id = c.in.participantId /\ r.scheduleId = c.in.scheduleId)
        /\ calls' = [calls EXCEPT ![p] = Goto(c, "touch")]
        /\ UNCHANGED <<Schedules, ScheduleSuggestions, now, uuids, foreignKeys>>

\* ------------------------------------------------------------- upsertSuggestion
MinScore == 0
MaxScore == 100

\* z.coerce.date() of a millisecond timestamp is that instant; the refine
\* compares the two dates.
\* A schema whose refinement lets an empty interval through.
ValidUpsertSuggestionOrEmpty(input) ==
    /\ ValidId(input.scheduleId)
    /\ IsDefined(input.score) =>
          ValueOf(input.score) >= MinScore /\ ValueOf(input.score) <= MaxScore
    /\ input.suggestedStartUtc <= input.suggestedEndUtc

ValidUpsertSuggestion(input) ==
    /\ ValidId(input.scheduleId)
    /\ IsDefined(input.score) =>
          ValueOf(input.score) >= MinScore /\ ValueOf(input.score) <= MaxScore
    /\ input.suggestedStartUtc < input.suggestedEndUtc

CallUpsertSuggestion(p, caller, input) ==
    /\ calls[p].pc = "idle"
    /\ calls' = [calls EXCEPT ![p] =
          Guarded("upsertSuggestion", caller, input, ValidUpsertSuggestion(input))]
    /\ UNCHANGED <<tables, now, uuids, foreignKeys>>

SuggestionId(c) ==
    IF c.op = "upsertSuggestion" THEN ValueOf(c.in.id) ELSE c.in.suggestionId

FindSuggestion(p) ==
    LET c == calls[p]
        existing == Where(ScheduleSuggestions,
            LAMBDA r : r.id = SuggestionId(c) /\ r.scheduleId = c.in.scheduleId)
    IN  /\ At(p, "findSuggestion")
        /\ calls' = [calls EXCEPT ![p] =
              IF existing = <<>> THEN Ended(c, "NOT_FOUND", NoData)
              ELSE Goto(c, IF c.op = "upsertSuggestion" THEN "updateSuggestion"
                           ELSE "deleteSuggestion")]
        /\ UNCHANGED <<tables, now, uuids, foreignKeys>>

UpdateSuggestion(p) ==
    LET c == calls[p]
    IN  /\ At(p, "updateSuggestion")
        /\ ScheduleSuggestions' = UpdateWhere(ScheduleSuggestions,
              LAMBDA r : r.id = ValueOf(c.in.id) /\ r.scheduleId = c.in.scheduleId,
              LAMBDA r : [r EXCEPT !.suggestedStartUtc = c.in.suggestedStartUtc,
                                   !.suggestedEndUtc = c.in.suggestedEndUtc,
                                   !.participantsJson = c.in.participantsJson,
                                   !.score = c.in.score,
                                   !.notes = c.in.notes])
        /\ calls' = [calls EXCEPT ![p] = Goto(c, "touch")]
        /\ UNCHANGED <<Schedules, ScheduleParticipants, now, uuids, foreignKeys>>

NewSuggestion(id, input, at) ==
    [id |-> id, scheduleId |-> input.scheduleId,
     suggestedStartUtc |-> input.suggestedStartUtc,
     suggestedEndUtc |-> input.suggestedEndUtc,
     participantsJson |-> input.participantsJson, score |-> input.score,
     notes |-> input.notes, createdAt |-> at]

InsertSuggestion(p) ==
    LET c == calls[p]
    IN  /\ At(p, "insertSuggestion")
        /\ uuids' = uuids + 1
        /\ IF foreignKeys /\ ~ParentExists(c.in.scheduleId)
           THEN /\ calls' = [calls EXCEPT ![p] = Ended(c, "STORE_ERROR", NoData)]
                /\ UNCHANGED ScheduleSuggestions
           ELSE /\ \E at \in c.since..now :
                     ScheduleSuggestions' = Append(ScheduleSuggestions,
                         NewSuggestion(uuids + 1, c.in, at))
                /\ calls' = [calls EXCEPT ![p] = Goto(c, "touch")]
        /\ UNCHANGED <<Schedules, ScheduleParticipants, now, foreignKeys>>

RereadSuggestions(p) ==
    LET c == calls[p]
    IN  /\ At(p, "rereadSuggestions")
        /\ calls' = [calls EXCEPT ![p] = Ended(c, "success",
              [suggestions |-> SuggestionsOf(c.in.scheduleId)])]
        /\ UNCHANGED <<tables, now, uuids, foreignKeys>>

\* ------------------------------------------------------------- deleteSuggestion
CallDeleteSuggestion(p, caller, input) ==
    /\ calls[p].pc = "idle"
    /\ calls' = [calls EXCEPT ![p] =
          Guarded("deleteSuggestion", caller, input,
                  ValidId(input.scheduleId) /\ ValidId(input.suggestionId))]
    /\ UNCHANGED <<tables, now, uuids, foreignKeys>>

DeleteSuggestionRow(p) ==
    LET c == calls[p]
    IN  /\ At(p, "deleteSuggestion")
        /\ ScheduleSuggestions' = DeleteWhere(ScheduleSuggestions,
              LAMBDA r : r.id = c.in.suggestionId /\ r.scheduleId = c.in.scheduleId)
        /\ calls' = [calls EXCEPT ![p] = Goto(c, "touch")]
        /\ UNCHANGED <<Schedules, ScheduleParticipants, now, uuids, foreignKeys>>

\* ------------------------------------------------------------- inputs
Optional(S) == {Undefined} \cup {Some(v) : v \in S}

\* The inputs of the calls served one at a time: every caller, every id
\* (as a child id, the string "" too), two values where an update shows.
Base ==
    [oneAtATime |-> TRUE,
     maxIds |-> MaxIds,
     callers |-> Callers,
     ids |-> 1..MaxIds,
     names |-> {"a"},
     descriptions |-> {Undefined},
     baseZones |-> {Undefined},
     durations |-> {Undefined},
     people |-> {"a", "b"},
     zones |-> {"UTC"},
     json |-> {Undefined},
     starts |-> {0},
     ends |-> {1, 2},
     scores |-> {Undefined},
     notes |-> {Undefined},
     pages |-> {Undefined},
     pageSizes |-> {Some(1)}]

\* The inputs that exercise the schedule fields, from either user: two
\* values of the required name, a value and undefined of optional fields.
Fields ==
    [oneAtATime |-> TRUE,
     maxIds |-> MaxIdsFields,
     callers |-> {Some(u) : u \in Users},
     ids |-> 1..MaxIdsFields,
     names |-> {"a", "b"},
     descriptions |-> {Undefined, Some("d")},
     baseZones |-> {Undefined},
     durations |-> {Undefined, Some(30)},
     people |-> {"a"},
     zones |-> {"UTC"},
     json |-> {Undefined},
     starts |-> {0},
     ends |-> {1},
     scores |-> {Undefined},
     notes |-> {Undefined},
     pages |-> {Undefined},
     pageSizes |-> {Some(1)}]

\* The inputs that exercise the schemas, from every caller: times in either
\* order, scores on both sides of both limits, empty strings.
Checked ==
    [oneAtATime |-> TRUE,
     maxIds |-> MaxIdsFields,
     callers |-> Callers,
     ids |-> 0..MaxIdsFields,
     names |-> {"a"},
     descriptions |-> {Undefined},
     baseZones |-> {Undefined},
     durations |-> {Undefined},
     people |-> {"", "a"},
     zones |-> {"", "UTC"},
     json |-> {Undefined, Some("{}")},
     starts |-> {0, 1},
     ends |-> {0, 1, 2},
     scores |-> {Undefined, Some(0 - 1), Some(MinScore), Some(MaxScore),
                 Some(MaxScore + 1)},
     notes |-> {Undefined, Some("n")},
     pages |-> {Undefined},
     pageSizes |-> {Some(1)}]

\* The inputs that exercise the paging of listMySchedules and, with four
\* ids, the children of two schedules side by side.
Pages ==
    [oneAtATime |-> TRUE,
     maxIds |-> MaxIdsPages,
     callers |-> {Some(u) : u \in Users},
     ids |-> 1..MaxIdsPages,
     names |-> {"a"},
     descriptions |-> {Undefined},
     baseZones |-> {Undefined},
     durations |-> {Undefined},
     people |-> {"a", "b"},
     zones |-> {"UTC"},
     json |-> {Undefined},
     starts |-> {0},
     ends |-> {1},
     scores |-> {Undefined},
     notes |-> {Undefined},
     pages |-> {Undefined, Some(0), Some(2), Some(3), Some(4)},
     pageSizes |-> {Undefined, Some(0), Some(1), Some(2), Some(MaxPageSize),
                    Some(MaxPageSize + 1)}]

\* The inputs of the concurrent calls: signed-in callers, accepted values.
Narrow ==
    [oneAtATime |-> FALSE,
     maxIds |-> MaxIdsConcurrent,
     callers |-> {Some(u) : u \in Users},
     ids |-> 1..MaxIdsConcurrent,
     names |-> {"a"},
     descriptions |-> {Undefined},
     baseZones |-> {Undefined},
     durations |-> {Undefined},
     people |-> {"a"},
     zones |-> {"UTC"},
     json |-> {Undefined},
     starts |-> {0},
     ends |-> {1},
     scores |-> {Undefined},
     notes |-> {Undefined},
     pages |-> {Undefined},
     pageSizes |-> {Some(1)}]

\* Calls in flight that have yet to call crypto.randomUUID().
WillDrawId(c) ==
    \/ c.op = "upsertParticipant" /\ c.pc = "insertParticipant"
    \/ c.op = "upsertSuggestion" /\ c.pc = "insertSuggestion"
IdsSpokenFor == uuids + Cardinality({q \in Slots : WillDrawId(calls[q])})

\* Slot p takes the next request: the first free slot, and under
\* D.oneAtATime only when no call is in flight.
Admits(p, D) ==
    /\ Quiet
    /\ calls[p].pc = "idle"
    /\ \A q \in 1..(p - 1) : calls[q].pc # "idle"
    /\ D.oneAtATime => \A q \in Slots : calls[q].pc = "idle"
\* ... and, if it is a request that draws an id, only while ids are left.
AdmitsNew(p, D) == Admits(p, D) /\ IdsSpokenFor < D.maxIds

\* A request arrives in slot p.
Call(p, D) ==
    \E caller \in D.callers :
       \/ /\ AdmitsNew(p, D)
          /\ \E input \in [name : D.names, description : D.descriptions,
                            baseTimeZone : D.baseZones,
                            durationMinutes : D.durations] :
                CallCreateSchedule(p, caller, input)
       \/ /\ Admits(p, D)
          /\ \E input \in [id : D.ids, name : Optional(D.names),
                            description : D.descriptions,
                            baseTimeZone : D.baseZones,
                            durationMinutes : D.durations] :
                CallUpdateSchedule(p, caller, input)
       \/ /\ Admits(p, D)
          /\ \E input \in [id : D.ids] : CallDeleteSchedule(p, caller, input)
       \/ /\ Admits(p, D)
          /\ \E input \in [page : D.pages, pageSize : D.pageSizes] :
                CallListMySchedules(p, caller, input)
       \/ /\ Admits(p, D)
          /\ \E input \in [id : D.ids] :
                CallGetScheduleWithDetails(p, caller, input)
       \/ /\ Admits(p, D)
          /\ \E input \in [id : Optional({EmptyString} \cup D.ids),
                            scheduleId : D.ids,
                            name : D.people, timeZone : D.zones,
                            availabilityJson : D.json] :
                /\ Truthy(input.id) \/ IdsSpokenFor < D.maxIds
                /\ CallUpsertParticipant(p, caller, input)
       \/ /\ Admits(p, D)
          /\ \E input \in [scheduleId : D.ids, participantId : D.ids] :
                CallDeleteParticipant(p, caller, input)
       \/ /\ Admits(p, D)
          /\ \E input \in [id : Optional({EmptyString} \cup D.ids),
                            scheduleId : D.ids,
                            suggestedStartUtc : D.starts,
                            suggestedEndUtc : D.ends,
                            participantsJson : D.json, score : D.scores,
                            notes : D.notes] :
                /\ Truthy(input.id) \/ IdsSpokenFor < D.maxIds
                /\ CallUpsertSuggestion(p, caller, input)
       \/ /\ Admits(p, D)
          /\ \E input \in [scheduleId : D.ids, suggestionId : D.ids] :
                CallDeleteSuggestion(p, caller, input)

\* The store applies the statement the call in slot p is waiting on.
Statement(p) ==
    \/ InsertSchedule(p)
    \/ UpdateScheduleRow(p)
    \/ RereadSchedule(p)
    \/ DeleteSuggestionsOf(p)
    \/ DeleteParticipantsOf(p)
    \/ DeleteScheduleRow(p)
    \/ ListCount(p)
    \/ DetailsParticipants(p)
    \/ DetailsSuggestions(p)
    \/ FindParticipant(p)
    \/ UpdateParticipant(p)
    \/ InsertParticipant(p)
    \/ RereadParticipants(p)
    \/ DeleteParticipantRow(p)
    \/ FindSuggestion(p)
    \/ UpdateSuggestion(p)
    \/ InsertSuggestion(p)
    \/ RereadSuggestions(p)
    \/ DeleteSuggestionRow(p)
    \/ TouchScheduleUpdatedAt(p)

\* Concurrent calls, their statements interleaved; the clock stands still.
Next ==
    \/ \E p \in Slots : Call(p, Narrow)
    \/ \E p \in Slots : Statement(p)
    \/ \E p \in Slots : Return(p)
Spec == Init /\ [][Next]_vars

\* One call at a time, the clock running.
SerialNext ==
    \/ Tick
    \/ \E p \in Slots : Call(p, Base)
    \/ \E p \in Slots : Statement(p)
    \/ \E p \in Slots : Return(p)
SerialSpec == Init /\ [][SerialNext]_vars

\* One call at a time, the clock running, the schedule fields varied.
FieldsNext ==
    \/ Tick
    \/ \E p \in Slots : Call(p, Fields)
    \/ \E p \in Slots : Statement(p)
    \/ \E p \in Slots : Return(p)
FieldsSpec == Init /\ [][FieldsNext]_vars

\* One call at a time, drawn from the inputs that exercise the child schemas.
CheckedNext ==
    \/ \E p \in Slots : Call(p, Checked)
    \/ \E p \in Slots : Statement(p)
    \/ \E p \in Slots : Return(p)
CheckedSpec == Init /\ [][CheckedNext]_vars

\* The inputs of the calls that write timestamps: the owner's requests on
\* one schedule and its one participant.
Timed ==
    [oneAtATime |-> FALSE,
     maxIds |-> MaxIdsConcurrent,
     callers |-> {Some("u1")},
     ids |-> {1},
     names |-> {"a"},
     descriptions |-> {Undefined},
     baseZones |-> {Undefined},
     durations |-> {Undefined},
     people |-> {"a"},
     zones |-> {"UTC"},
     json |-> {Undefined},
     starts |-> {0},
     ends |-> {1},
     scores |-> {Undefined},
     notes |-> {Undefined},
     pages |-> {Undefined},
     pageSizes |-> {Some(1)}]

\* A request of one of the actions that write createdAt or updatedAt.
TimedCall(p) ==
    \E caller \in Timed.callers :
       \/ /\ AdmitsNew(p, Timed)
          /\ \E input \in [name : Timed.names, description : Timed.descriptions,
                            baseTimeZone : Timed.baseZones,
                            durationMinutes : Timed.durations] :
                CallCreateSchedule(p, caller, input)
       \/ /\ Admits(p, Timed)
          /\ \E input \in [id : Timed.ids, name : Optional(Timed.names),
                            description : Timed.descriptions,
                            baseTimeZone : Timed.baseZones,
                            durationMinutes : Timed.durations] :
                CallUpdateSchedule(p, caller, input)
       \/ /\ Admits(p, Timed)
          /\ \E input \in [id : Optional({MaxIdsConcurrent}),
                            scheduleId : Timed.ids,
                            name : Timed.people, timeZone : Timed.zones,
                            availabilityJson : Timed.json] :
                /\ Truthy(input.id) \/ IdsSpokenFor < Timed.maxIds
                /\ CallUpsertParticipant(p, caller, input)
       \/ /\ Admits(p, Timed)
          /\ \E input \in [scheduleId : Timed.ids,
                            participantId : {MaxIdsConcurrent}] :
                CallDeleteParticipant(p, caller, input)

\* The statements of those actions.
TimedStatement(p) ==
    \/ InsertSchedule(p)
    \/ UpdateScheduleRow(p)
    \/ RereadSchedule(p)
    \/ FindParticipant(p)
    \/ UpdateParticipant(p)
    \/ InsertParticipant(p)
    \/ DeleteParticipantRow(p)
    \/ TouchScheduleUpdatedAt(p)
    \/ RereadParticipants(p)

\* Concurrent calls of updateSchedule and of the participant mutations on
\* one schedule, under a clock that advances.
TimedNext ==
    \/ Tick
    \/ \E p \in Slots : TimedCall(p)
    \/ \E p \in Slots : TimedStatement(p)
    \/ \E p \in Slots : Return(p)
TimedSpec == Init /\ [][TimedNext]_vars

\* One call at a time, any of which the process may abandon between two
\* of its statements.
InterruptedNext ==
    \/ \E p \in Slots : Call(p, Base)
    \/ \E p \in Slots : Statement(p)
    \/ \E p \in Slots : Crash(p)
    \/ \E p \in Slots : Return(p)
InterruptedSpec == Init /\ [][InterruptedNext]_vars

\* One call at a time, drawn from the inputs that exercise the paging.
PagesNext ==
    \/ \E p \in Slots : Call(p, Pages)
    \/ \E p \in Slots : Statement(p)
    \/ \E p \in Slots : Return(p)
PagesSpec == Init /\ [][PagesNext]_vars

\* ------------------------------------------------------------- properties
GuardedOps == {"updateSchedule", "deleteSchedule", "getScheduleWithDetails",
               "upsertParticipant", "deleteParticipant", "upsertSuggestion",
               "deleteSuggestion"}

\* The step in which a request arrives in slot p.
Arrives(p) == calls[p].pc = "idle" /\ calls'[p].pc # "idle"
\* A step of the call in slot p.
StepOf(p) == calls'[p] # calls[p]

OwnerOf(scheduleId) ==
    {s.ownerUserId : s \in {r \in Rows(Schedules) : r.id = scheduleId}}

\* C1: a signed-in caller naming, in any of the seven guarded operations, a
\* schedule that another user owns gets NOT_FOUND with no payload, exactly
\* as for an id no schedule has, and the step changes none of the tables.
C1_StrangerGetsNotFound ==
    [][\A p \in Slots :
         LET c == calls'[p]
         IN  (/\ Arrives(p)
              /\ c.op \in GuardedOps
              /\ c.code # "VALIDATION"
              /\ IsDefined(c.user)
              /\ ValueOf(c.user) \notin OwnerOf(TargetId(c)))
             => (/\ c.pc = "done"
                 /\ c.code = "NOT_FOUND"
                 /\ c.data = NoData
                 /\ tables' = tables)]_vars

\* C1 witness: a call was refused on a schedule that exists, has a child
\* and belongs to another user.
C1_Witness ==
    \E p \in Slots :
       /\ calls[p].pc = "done"
       /\ calls[p].code = "NOT_FOUND"
       /\ calls[p].op = "upsertParticipant"
       /\ OwnerOf(TargetId(calls[p])) # {}
       /\ ValueOf(calls[p].user) \notin OwnerOf(TargetId(calls[p]))
       /\ HasChildren(TargetId(calls[p]))

IsUpsert(c) == c.op \in {"upsertParticipant", "upsertSuggestion"}
ChildMutations == {"upsertParticipant", "deleteParticipant", "upsertSuggestion",
                   "deleteSuggestion"}
Succeeded(c) == c.pc = "done" /\ c.code = "success"

\* The child id of an upsert names a row of another schedule.
NamesForeignChild(c) ==
    /\ IsUpsert(c)
    /\ Truthy(c.in.id)
    /\ \E r \in Rows(ScheduleParticipants) \cup Rows(ScheduleSuggestions) :
          /\ r.id = ValueOf(c.in.id)
          /\ r.scheduleId # c.in.scheduleId
          /\ (c.op = "upsertParticipant") = (r \in Rows(ScheduleParticipants))

\* C4: an upsert by the owner of S whose id names a child of another
\* schedule T ends NOT_FOUND at its lookup, and no step of the call changes
\* a row of any table (no write, no updatedAt of S or T touched).
C4_ForeignChildNotFound ==
    [][\A p \in Slots :
         /\ (StepOf(p) /\ NamesForeignChild(calls'[p]) /\ Arrives(p))
               => tables' = tables
         /\ (StepOf(p) /\ NamesForeignChild(calls[p]) /\ ~Arrives(p)
                       /\ calls[p].pc # "done")
               => (/\ calls'[p].pc = "done"
                   /\ calls'[p].code = "NOT_FOUND"
                   /\ tables' = tables)]_vars

\* C4 witness: the owner of the named schedule was refused the child of
\* another schedule.
C4_Witness ==
    \E p \in Slots :
       /\ calls[p].pc = "done"
       /\ calls[p].code = "NOT_FOUND"
       /\ IsDefined(calls[p].schedule)
       /\ NamesForeignChild(calls[p])

\* Every id a row has was produced by crypto.randomUUID().
AllRows == Rows(Schedules) \cup Rows(ScheduleParticipants) \cup Rows(ScheduleSuggestions)
IdsInUse == {r.id : r \in AllRows}
UniqueIds ==
    /\ Cardinality(IdsInUse)
         = Len(Schedules) + Len(ScheduleParticipants) + Len(ScheduleSuggestions)
    /\ IdsInUse \subseteq 1..uuids

\* table' is table with one row appended, for schedule scheduleId, whose id
\* no row has and crypto.randomUUID() had not produced before.
AddsOneFreshRow(table, tableAfter, scheduleId) ==
    /\ Len(tableAfter) = Len(table) + 1
    /\ SubSeq(tableAfter, 1, Len(table)) = table
    /\ tableAfter[Len(tableAfter)].scheduleId = scheduleId
    /\ tableAfter[Len(tableAfter)].id \notin IdsInUse \cup (1..uuids)

\* C5: the insert of an upsert without id appends exactly one row, with a
\* fresh id and the input's scheduleId, and leaves every other child row as
\* it was; no other step of the call changes a child table; ids stay unique.
C5_UpsertWithoutIdAddsOneFreshRow ==
    /\ []UniqueIds
    /\ [][\A p \in Slots :
           LET c == calls[p]
           IN  (StepOf(p) /\ IsUpsert(IF Arrives(p) THEN calls'[p] ELSE c)
                          /\ ~Truthy((IF Arrives(p) THEN calls'[p] ELSE c).in.id))
               => CASE c.pc = "insertParticipant" /\ calls'[p].code # "STORE_ERROR" ->
                         /\ AddsOneFreshRow(ScheduleParticipants,
                                ScheduleParticipants', c.in.scheduleId)
                         /\ ScheduleSuggestions' = ScheduleSuggestions
                    [] c.pc = "insertSuggestion" /\ calls'[p].code # "STORE_ERROR" ->
                         /\ AddsOneFreshRow(ScheduleSuggestions,
                                ScheduleSuggestions', c.in.scheduleId)
                         /\ ScheduleParticipants' = ScheduleParticipants
                    [] OTHER ->
                         /\ ScheduleParticipants' = ScheduleParticipants
                         /\ ScheduleSuggestions' = ScheduleSuggestions]_vars

\* C5 witness: an upsert without id returned, and its schedule now has two
\* participants.
C5_Witness ==
    \E p \in Slots :
       /\ Succeeded(calls[p])
       /\ calls[p].op = "upsertParticipant"
       /\ calls[p].in.id = Undefined
       /\ Len(ParticipantsOf(calls[p].in.scheduleId)) = 2

\* after is before with the rows id/scheduleId pick out rewritten in place:
\* same length, same id, scheduleId and createdAt everywhere, every other
\* row untouched.
RewritesInPlace(before, after, id, scheduleId) ==
    /\ Len(after) = Len(before)
    /\ \A i \in DOMAIN before :
          /\ after[i].id = before[i].id
          /\ after[i].scheduleId = before[i].scheduleId
          /\ after[i].createdAt = before[i].createdAt
          /\ (before[i].id # id \/ before[i].scheduleId # scheduleId)
                => after[i] = before[i]

\* C6: the update of an upsert with the id of a child of its schedule
\* rewrites that row in place with the input's values: id, scheduleId and
\* createdAt stay, no row is added or removed, no other child row changes;
\* no other step of the call changes a child table.
C6_UpsertWithIdUpdatesInPlace ==
    [][\A p \in Slots :
         LET c == calls[p]
         IN  (StepOf(p) /\ IsUpsert(IF Arrives(p) THEN calls'[p] ELSE c)
                        /\ Truthy((IF Arrives(p) THEN calls'[p] ELSE c).in.id))
             => CASE c.pc = "updateParticipant" ->
                       /\ RewritesInPlace(ScheduleParticipants, ScheduleParticipants',
                              ValueOf(c.in.id), c.in.scheduleId)
                       /\ \A r \in Rows(ScheduleParticipants') :
                             r.id = ValueOf(c.in.id) =>
                               /\ r.name = c.in.name
                               /\ r.timeZone = c.in.timeZone
                               /\ r.availabilityJson = c.in.availabilityJson
                       /\ ScheduleSuggestions' = ScheduleSuggestions
                  [] c.pc = "updateSuggestion" ->
                       /\ RewritesInPlace(ScheduleSuggestions, ScheduleSuggestions',
                              ValueOf(c.in.id), c.in.scheduleId)
                       /\ \A r \in Rows(ScheduleSuggestions') :
                             r.id = ValueOf(c.in.id) =>
                               /\ r.suggestedStartUtc = c.in.suggestedStartUtc
                               /\ r.suggestedEndUtc = c.in.suggestedEndUtc
                               /\ r.participantsJson = c.in.participantsJson
                               /\ r.score = c.in.score
                               /\ r.notes = c.in.notes
                       /\ ScheduleParticipants' = ScheduleParticipants
                  [] OTHER ->
                       /\ ScheduleParticipants' = ScheduleParticipants
                       /\ ScheduleSuggestions' = ScheduleSuggestions]_vars

\* C6 witness: an upsert with an id returned, its row carries the new name
\* and an older createdAt, and a sibling row is still there.
C6_Witness ==
    \E p \in Slots :
       /\ Succeeded(calls[p])
       /\ calls[p].op = "upsertParticipant"
       /\ Truthy(calls[p].in.id)
       /\ \E r, q \in Rows(ScheduleParticipants) :
             /\ r.id = ValueOf(calls[p].in.id)
             /\ r.name = "b"
             /\ r.createdAt < now
             /\ q.id # r.id
             /\ q.scheduleId = r.scheduleId
             /\ q.name = "a"

\* The named schedule's updatedAt now, and as the guard of the call saw it.
UpdatedAtNow(c) == {s.updatedAt : s \in {r \in Rows(Schedules) : r.id = c.in.scheduleId}}
UpdatedAtBefore(c) == ValueOf(c.schedule).updatedAt

\* C7 as stated: every successful child mutation leaves the schedule's
\* updatedAt strictly greater than it was before the call.
C7_UpdatedAtStrictlyAdvances ==
    \A p \in Slots :
       (Succeeded(calls[p]) /\ calls[p].op \in ChildMutations)
       => \E u \in UpdatedAtNow(calls[p]) : u > UpdatedAtBefore(calls[p])

\* What the touch does ensure when no other call interleaves: the
\* schedule's updatedAt is a clock reading taken after the statement before
\* the touch returned, so not less than its value before the call.
UpdatedAtIsRefreshed ==
    \A p \in Slots :
       (Succeeded(calls[p]) /\ calls[p].op \in ChildMutations)
       => \E u \in UpdatedAtNow(calls[p]) :
             /\ u >= UpdatedAtBefore(calls[p])
             /\ u >= calls[p].since
             /\ u <= now

\* The two rejections of the upsertSuggestion schema the claim names.
BadInterval(input) == input.suggestedEndUtc <= input.suggestedStartUtc
BadScore(input) ==
    IsDefined(input.score) /\ ValueOf(input.score) \notin MinScore..MaxScore
StoredSuggestionsValid ==
    \A r \in Rows(ScheduleSuggestions) :
       /\ r.suggestedStartUtc < r.suggestedEndUtc
       /\ IsDefined(r.score) => ValueOf(r.score) \in MinScore..MaxScore

\* C8: an upsertSuggestion input whose end is not after its start, or whose
\* score is outside 0..100, is rejected on arrival (VALIDATION, before the
\* guard reads the store) with every table unchanged; and every stored
\* suggestion has start < end and a score absent or in 0..100.
C8_BadSuggestionsRejected ==
    /\ []StoredSuggestionsValid
    /\ [][\A p \in Slots :
           LET c == calls'[p]
           IN  (/\ Arrives(p)
                /\ c.op = "upsertSuggestion"
                /\ BadInterval(c.in) \/ BadScore(c.in))
               => (/\ c.pc = "done"
                   /\ c.code = "VALIDATION"
                   /\ c.schedule = Undefined
                   /\ c.data = NoData
                   /\ tables' = tables)]_vars

\* C8 witness: a suggestion is stored, and an upsert of an empty interval
\* with a good score for its schedule, by its owner, has been rejected.
C8_Witness ==
    \E p \in Slots :
       /\ calls[p].pc = "done"
       /\ calls[p].code = "VALIDATION"
       /\ calls[p].op = "upsertSuggestion"
       /\ calls[p].in.suggestedEndUtc = calls[p].in.suggestedStartUtc
       /\ calls[p].in.score = Some(MaxScore)
       /\ calls[p].user \in {Some(u) : u \in OwnerOf(calls[p].in.scheduleId)}
       /\ SuggestionsOf(calls[p].in.scheduleId) # <<>>

\* The value a field has after an update that may provide it.
Provided(given, old) == IF IsDefined(given) THEN given ELSE old

\* C9: the update statement of updateSchedule sets, in the row the caller
\* named, exactly the provided fields and updatedAt; id, ownerUserId,
\* createdAt and absent fields keep their values; every other schedule row
\* and every child row is unchanged; no other step of the call writes.  No
\* step of any operation changes the ownerUserId of a schedule.
C9_UpdateChangesProvidedFieldsOnly ==
    [][/\ \A p \in Slots :
            LET c == IF Arrives(p) THEN calls'[p] ELSE calls[p]
            IN  (StepOf(p) /\ c.op = "updateSchedule")
                => IF calls[p].pc = "update"
                   THEN /\ Len(Schedules') = Len(Schedules)
                        /\ \A i \in DOMAIN Schedules :
                              LET s == Schedules[i]
                                  t == Schedules'[i]
                              IN  IF s.id = c.in.id
                                  THEN /\ t.id = s.id
                                       /\ t.ownerUserId = s.ownerUserId
                                       /\ t.createdAt = s.createdAt
                                       /\ t.name = ValueOf(Provided(c.in.name, Some(s.name)))
                                       /\ t.description =
                                            Provided(c.in.description, s.description)
                                       /\ t.baseTimeZone =
                                            Provided(c.in.baseTimeZone, s.baseTimeZone)
                                       /\ t.durationMinutes =
                                            Provided(c.in.durationMinutes, s.durationMinutes)
                                       /\ t.updatedAt \in c.since..now
                                  ELSE t = s
                        /\ ScheduleParticipants' = ScheduleParticipants
                        /\ ScheduleSuggestions' = ScheduleSuggestions
                   ELSE tables' = tables
       /\ \A s \in Rows(Schedules), t \in Rows(Schedules') :
            s.id = t.id => s.ownerUserId = t.ownerUserId]_vars

\* C9 witness: an updateSchedule that provided a name and no description
\* returned a row with the new name, its old description and a later
\* updatedAt, while the other user's schedule is still there.
C9_Witness ==
    \E p \in Slots :
       /\ Succeeded(calls[p])
       /\ calls[p].op = "updateSchedule"
       /\ calls[p].in.name = Some("b")
       /\ calls[p].in.description = Undefined
       /\ IsDefined(calls[p].data.schedule)
       /\ ValueOf(calls[p].data.schedule).name = "b"
       /\ ValueOf(calls[p].data.schedule).description = Some("d")
       /\ ValueOf(calls[p].data.schedule).updatedAt
            > ValueOf(calls[p].data.schedule).createdAt
       /\ \E s \in Rows(Schedules) : Some(s.ownerUserId) # calls[p].user

Min(a, b) == IF a < b THEN a ELSE b
Max(a, b) == IF a > b THEN a ELSE b
RECURSIVE PagesFrom(_, _, _)
\* Pages k, k+1, ... of rows, one after the other, until an empty one.
PagesFrom(rows, k, pageSize) ==
    IF OffsetLimit(rows, (k - 1) * pageSize, pageSize) = <<>> THEN <<>>
    ELSE OffsetLimit(rows, (k - 1) * pageSize, pageSize)
           \o PagesFrom(rows, k + 1, pageSize)

\* C10: with no call running beside it, a successful listMySchedules
\* returns the ((page-1)*pageSize+1)-th to (page*pageSize)-th of the
\* caller's schedules in table order, so min(pageSize, max(0, n - offset))
\* items, all owned by the caller, with total = n and the parsed page and
\* pageSize; and for every page size, pages 1, 2, ... laid end to end are
\* the caller's schedules, each once.
C10_PagesPartitionOwnedSchedules ==
    /\ \A p \in Slots :
          (Succeeded(calls[p]) /\ calls[p].op = "listMySchedules")
          => LET c == calls[p]
                 owned == OwnedBy(ValueOf(c.user))
                 n == Len(owned)
                 offset == (c.in.page - 1) * c.in.pageSize
             IN  /\ Len(c.data.items) = Min(c.in.pageSize, Max(0, n - offset))
                 /\ \A i \in DOMAIN c.data.items : c.data.items[i] = owned[offset + i]
                 /\ \A i \in DOMAIN c.data.items :
                       Some(c.data.items[i].ownerUserId) = c.user
                 /\ c.data.total = n
                 /\ c.data.page = c.in.page
                 /\ c.data.pageSize = c.in.pageSize
    /\ \A u \in Users : \A pageSize \in 1..(MaxIdsPages + 1) :
          PagesFrom(OwnedBy(u), 1, pageSize) = OwnedBy(u)
    /\ UniqueIds

\* C10 witness: the caller owns three schedules, another user owns one, and
\* page 2 of size 2 came back with the third schedule alone.
C10_Witness ==
    \E p \in Slots :
       /\ Succeeded(calls[p])
       /\ calls[p].op = "listMySchedules"
       /\ calls[p].in.page = 2
       /\ calls[p].in.pageSize = 2
       /\ calls[p].data.total = 3
       /\ Len(calls[p].data.items) = 1
       /\ Len(Schedules) = 4

\* The input of call c satisfies the schema of its action.
ValidInput(c) ==
    CASE c.op = "createSchedule" -> ValidCreateSchedule(c.in)
      [] c.op = "updateSchedule" -> ValidUpdateSchedule(c.in)
      [] c.op \in {"deleteSchedule", "getScheduleWithDetails"} -> ValidId(c.in.id)
      [] c.op = "listMySchedules" ->
            c.in.page > 0 /\ c.in.pageSize > 0 /\ c.in.pageSize <= MaxPageSize
      [] c.op = "upsertParticipant" -> ValidUpsertParticipant(c.in)
      [] c.op = "upsertSuggestion" -> ValidUpsertSuggestion(c.in)
      [] c.op = "deleteParticipant" ->
            ValidId(c.in.scheduleId) /\ ValidId(c.in.participantId)
      [] c.op = "deleteSuggestion" ->
            ValidId(c.in.scheduleId) /\ ValidId(c.in.suggestionId)

\* The call that arrived in slot p was refused with code, having read and
\* written nothing.
RefusedOnArrival(p, code) ==
    /\ calls'[p].pc = "done"
    /\ calls'[p].code = code
    /\ calls'[p].schedule = Undefined
    /\ calls'[p].data = NoData
    /\ tables' = tables
    /\ uuids' = uuids

\* C11 as stated: every request without a caller identity is refused
\* UNAUTHORIZED on arrival, before any store read or write.
C11_NoCallerIsUnauthorized ==
    [][\A p \in Slots :
         (Arrives(p) /\ calls'[p].user = Undefined)
         => RefusedOnArrival(p, "UNAUTHORIZED")]_vars

\* C11 amended: every request without a caller identity whose input passes
\* the action's schema is refused UNAUTHORIZED on arrival, before any store
\* read or write; one whose input fails the schema is refused with the
\* validation error instead, also with nothing read or written.
C11_ValidInputNoCallerIsUnauthorized ==
    [][\A p \in Slots :
         (Arrives(p) /\ calls'[p].user = Undefined)
         => IF ValidInput(calls'[p])
            THEN RefusedOnArrival(p, "UNAUTHORIZED")
            ELSE RefusedOnArrival(p, "VALIDATION")]_vars

\* C11 witness: an anonymous upsertSuggestion with a valid input, naming a
\* schedule that exists, was refused UNAUTHORIZED.
C11_Witness ==
    \E p \in Slots :
       /\ calls[p].pc = "done"
       /\ calls[p].code = "UNAUTHORIZED"
       /\ calls[p].op = "upsertSuggestion"
       /\ calls[p].user = Undefined
       /\ ValidInput(calls[p])
       /\ ParentExists(calls[p].in.scheduleId)

\* Ids of the rows createSchedule calls in flight are about to insert.
PendingIds ==
    {calls[p].loc.schedule.id : p \in {q \in Slots : calls[q].pc = "insertSchedule"}}
\* An id crypto.randomUUID() has produced that no schedule row has and no
\* createSchedule in flight is about to insert: the id of a deleted
\* schedule (or of a child, which no schedule ever had).
Gone(id) == id \in 1..uuids /\ ~ParentExists(id) /\ id \notin PendingIds

\* C12: when deleteSchedule returns success its schedule id is gone; an id
\* that is gone stays gone across every step of every operation
\* (createSchedule included); and every schema-valid request of a guarded
\* operation that arrives from a signed-in caller naming a gone id fails
\* with NOT_FOUND and changes nothing.
C12_DeletedStaysNotFound ==
    /\ [](\A p \in Slots :
            (Succeeded(calls[p]) /\ calls[p].op = "deleteSchedule")
            => Gone(calls[p].in.id))
    /\ [][/\ \A id \in 1..uuids : Gone(id) => Gone(id)'
          /\ \A p \in Slots :
               (/\ Arrives(p)
                /\ calls'[p].op \in GuardedOps
                /\ ValidInput(calls'[p])
                /\ IsDefined(calls'[p].user)
                /\ Gone(TargetId(calls'[p])))
               => RefusedOnArrival(p, "NOT_FOUND")]_vars

\* C12 witness: schedule 1 was deleted, a schedule was created after it,
\* and the owner of the new one has just been refused the details of 1.
C12_Witness ==
    \E p \in Slots :
       /\ calls[p].pc = "done"
       /\ calls[p].code = "NOT_FOUND"
       /\ calls[p].op = "getScheduleWithDetails"
       /\ calls[p].in.id = 1
       /\ Gone(1)
       /\ \E s \in Rows(Schedules) : s.id = 2 /\ Some(s.ownerUserId) = calls[p].user

\* The row of an upsert's returned collection that the call wrote: the row
\* with the input's id, or for an insert the row with the newest id.
WrittenId(c) == IF Truthy(c.in.id) THEN ValueOf(c.in.id) ELSE uuids

\* C13: a successful upsert returns exactly the rows of its child table
\* whose scheduleId is the input's, as the table holds them at the final
\* read; and, one call at a time, the row the call wrote is among them with
\* the input's values.
C13_UpsertReturnsWholeCollection ==
    \A p \in Slots :
       LET c == calls[p]
       IN  /\ (Succeeded(c) /\ c.op = "upsertParticipant")
               => /\ c.data.participants =
                       SelectSeq(ScheduleParticipants,
                                 LAMBDA r : r.scheduleId = c.in.scheduleId)
                  /\ \E r \in Rows(c.data.participants) :
                        /\ r.id = WrittenId(c)
                        /\ r.name = c.in.name
                        /\ r.timeZone = c.in.timeZone
                        /\ r.availabilityJson = c.in.availabilityJson
           /\ (Succeeded(c) /\ c.op = "upsertSuggestion")
               => /\ c.data.suggestions =
                       SelectSeq(ScheduleSuggestions,
                                 LAMBDA r : r.scheduleId = c.in.scheduleId)
                  /\ \E r \in Rows(c.data.suggestions) :
                        /\ r.id = WrittenId(c)
                        /\ r.suggestedStartUtc = c.in.suggestedStartUtc
                        /\ r.suggestedEndUtc = c.in.suggestedEndUtc
                        /\ r.participantsJson = c.in.participantsJson
                        /\ r.score = c.in.score
                        /\ r.notes = c.in.notes

\* C13 witness: an upsert renamed the participant of its schedule and
\* returned that row alone, while another schedule has a participant of its
\* own.
C13_Witness ==
    \E p \in Slots :
       /\ Succeeded(calls[p])
       /\ calls[p].op = "upsertParticipant"
       /\ Truthy(calls[p].in.id)
       /\ calls[p].in.name = "b"
       /\ Len(calls[p].data.participants) = 1
       /\ \E r \in Rows(ScheduleParticipants) :
             r.scheduleId # calls[p].in.scheduleId /\ r.name = "a"

Interrupted(c) == c.pc = "done" /\ c.code = "INTERRUPTED"
\* table without the rows of schedule scheduleId.
WithoutChildrenOf(table, scheduleId) ==
    SelectSeq(table, LAMBDA r : r.scheduleId # scheduleId)

\* C14: a deleteSchedule call that is not interleaved deletes, one statement
\* after the other, the suggestions of S, then the participants of S, then
\* the schedule row S, each statement changing its own table only; and in
\* every state the call can be stopped in, as in every other state, every
\* participant and suggestion has its schedule row.
C14_ScheduleRowDeletedLast ==
    /\ [](/\ \A r \in Rows(ScheduleParticipants) \cup Rows(ScheduleSuggestions) :
               ParentExists(r.scheduleId)
          /\ \A p \in Slots :
               (Interrupted(calls[p]) /\ calls[p].op = "deleteSchedule")
               => ParentExists(calls[p].in.id))
    /\ [][\A p \in Slots :
           LET c == calls[p]
               d == calls'[p]
           IN  /\ (Arrives(p) /\ d.op = "deleteSchedule")
                   => d.pc \in {"done", "deleteSuggestions"} /\ tables' = tables
               /\ (StepOf(p) /\ c.op = "deleteSchedule" /\ c.pc # "done"
                             /\ ~Interrupted(d))
                   => CASE c.pc = "deleteSuggestions" ->
                             /\ ScheduleSuggestions' =
                                  WithoutChildrenOf(ScheduleSuggestions, c.in.id)
                             /\ ScheduleParticipants' = ScheduleParticipants
                             /\ Schedules' = Schedules
                             /\ d.pc = "deleteParticipants"
                        [] c.pc = "deleteParticipants" ->
                             /\ ScheduleParticipants' =
                                  WithoutChildrenOf(ScheduleParticipants, c.in.id)
                             /\ ScheduleSuggestions' = ScheduleSuggestions
                             /\ Schedules' = Schedules
                             /\ d.pc = "deleteSchedule"
                        [] c.pc = "deleteSchedule" ->
                             /\ Schedules' = SelectSeq(Schedules, LAMBDA r : r.id # c.in.id)
                             /\ ScheduleParticipants' = ScheduleParticipants
                             /\ ScheduleSuggestions' = ScheduleSuggestions
                             /\ Succeeded(d)]_vars

\* C14 witness: a deleteSchedule was stopped after its first delete; its
\* schedule and the schedule's participant are still there.
C14_Witness ==
    \E p \in Slots :
       /\ Interrupted(calls[p])
       /\ calls[p].op = "deleteSchedule"
       /\ calls[p].data.stopped = "deleteParticipants"
       /\ ParentExists(calls[p].in.id)
       /\ ParticipantsOf(calls[p].in.id) # <<>>
       /\ uuids = MaxIds

\* C15 as stated: a deleteSchedule interrupted anywhere before its final
\* statement leaves its schedule in place and without children.
C15_InterruptedDeleteLeavesNoChildren ==
    \A p \in Slots :
       (Interrupted(calls[p]) /\ calls[p].op = "deleteSchedule")
       => ParentExists(calls[p].in.id) /\ ~HasChildren(calls[p].in.id)

\* C15 amended: a deleteSchedule interrupted before its final statement,
\* with no other call interleaving, leaves its schedule in place; the
\* schedule has no children if the interruption comes after the second
\* delete, no suggestions but still its participants if it comes between
\* the first and the second, and all of its children (exactly the tables
\* the guard saw) if it comes before the first.
C15_InterruptedDeleteLeavesSchedule ==
    /\ [](\A p \in Slots :
            (Interrupted(calls[p]) /\ calls[p].op = "deleteSchedule")
            => /\ ParentExists(calls[p].in.id)
               /\ calls[p].data.stopped = "deleteSchedule"
                    => ~HasChildren(calls[p].in.id)
               /\ calls[p].data.stopped = "deleteParticipants"
                    => SuggestionsOf(calls[p].in.id) = <<>>)
    /\ [][\A p \in Slots :
           (calls[p].op = "deleteSchedule" /\ calls[p].pc = "deleteSuggestions"
              /\ Interrupted(calls'[p]))
           => tables' = tables]_vars

\* C15 witness: a deleteSchedule was stopped before its final statement; the
\* schedule is there and its children are gone.
C15_Witness ==
    \E p \in Slots :
       /\ Interrupted(calls[p])
       /\ calls[p].op = "deleteSchedule"
       /\ calls[p].data.stopped = "deleteSchedule"
       /\ ParentExists(calls[p].in.id)
       /\ ~HasChildren(calls[p].in.id)
       /\ uuids = MaxIds
       /\ Len(Schedules) = 1

\* The child of the upsert's type with the input's id under the input's
\* schedule, if any.
NamedChild(c) ==
    {r \in Rows(IF c.op = "upsertParticipant" THEN ScheduleParticipants
                ELSE ScheduleSuggestions) :
        r.id = ValueOf(c.in.id) /\ r.scheduleId = c.in.scheduleId}

\* C16: an upsert whose input provides an id (the empty string included)
\* that no child under the input's schedule has ends NOT_FOUND at its first
\* statement after the guard, and no step of it adds a row: only an upsert
\* whose input has no id inserts.
C16_ProvidedIdNeverInserts ==
    [][\A p \in Slots :
         LET c == calls[p]
         IN  (StepOf(p) /\ IsUpsert(c) /\ IsDefined(c.in.id) /\ c.pc # "done")
             => /\ Len(ScheduleParticipants') <= Len(ScheduleParticipants)
                /\ Len(ScheduleSuggestions') <= Len(ScheduleSuggestions)
                /\ (NamedChild(c) = {}
                      /\ c.pc \in {"findParticipant", "insertParticipant",
                                   "findSuggestion", "insertSuggestion"})
                   => calls'[p].pc = "done" /\ calls'[p].code = "NOT_FOUND"]_vars

ChildDeletes == {"deleteParticipant", "deleteSuggestion"}
\* The table a child delete works on, and the child id it names.
ChildTable(c) ==
    IF c.op = "deleteParticipant" THEN ScheduleParticipants ELSE ScheduleSuggestions
ChildId(c) ==
    IF c.op = "deleteParticipant" THEN c.in.participantId ELSE c.in.suggestionId
\* The positions of the rows of its table that a child delete names.
NamedAt(c) ==
    {i \in DOMAIN ChildTable(c) :
        /\ ChildTable(c)[i].id = ChildId(c)
        /\ ChildTable(c)[i].scheduleId = c.in.scheduleId}
\* seq without its i-th element.
Without(seq, i) == SubSeq(seq, 1, i - 1) \o SubSeq(seq, i + 1, Len(seq))

\* C17: a child delete by the owner of S naming an id that no child under S
\* has (no row at all, or a child of another schedule) ends NOT_FOUND at
\* its lookup with every table unchanged, so nothing deleted and no
\* updatedAt touched; otherwise its delete statement removes exactly the
\* one row with that id under S, leaving every other participant and
\* suggestion row, and only the touch of S follows.
C17_ChildDeleteRemovesOneRowOrNothing ==
    [][\A p \in Slots :
         LET c == calls[p]
             d == calls'[p]
         IN  /\ (Arrives(p) /\ d.op \in ChildDeletes) => tables' = tables
             /\ (StepOf(p) /\ c.op \in ChildDeletes /\ c.pc # "done")
                 => CASE c.pc \in {"findParticipant", "findSuggestion"} ->
                           /\ tables' = tables
                           /\ IF NamedAt(c) = {}
                              THEN d.pc = "done" /\ d.code = "NOT_FOUND"
                              ELSE d.pc \in {"deleteParticipant", "deleteSuggestion"}
                      [] c.pc \in {"deleteParticipant", "deleteSuggestion"} ->
                           /\ Cardinality(NamedAt(c)) = 1
                           /\ \A i \in NamedAt(c) :
                                 IF c.op = "deleteParticipant"
                                 THEN /\ ScheduleParticipants' =
                                           Without(ScheduleParticipants, i)
                                      /\ ScheduleSuggestions' = ScheduleSuggestions
                                 ELSE /\ ScheduleSuggestions' =
                                           Without(ScheduleSuggestions, i)
                                      /\ ScheduleParticipants' = ScheduleParticipants
                           /\ Schedules' = Schedules
                      [] OTHER ->
                           /\ ScheduleParticipants' = ScheduleParticipants
                           /\ ScheduleSuggestions' = ScheduleSuggestions
                           /\ \A i \in DOMAIN Schedules :
                                 Schedules[i].id # c.in.scheduleId
                                 => Schedules'[i] = Schedules[i]]_vars

\* C17 witness: the owner of a schedule was refused the deletion, under it,
\* of a participant of another schedule, which is still there.
C17_Witness ==
    \E p \in Slots :
       /\ calls[p].pc = "done"
       /\ calls[p].code = "NOT_FOUND"
       /\ calls[p].op = "deleteParticipant"
       /\ IsDefined(calls[p].schedule)
       /\ \E r \in Rows(ScheduleParticipants) :
             r.id = calls[p].in.participantId /\ r.scheduleId # calls[p].in.scheduleId

\* C18: every updateSchedule that returns success returns a schedule record
\* that is present, has the input's id and is owned by the caller.
C18_UpdateReturnsPresentRecord ==
    \A p \in Slots :
       (Succeeded(calls[p]) /\ calls[p].op = "updateSchedule")
       => /\ IsDefined(calls[p].data.schedule)
          /\ ValueOf(calls[p].data.schedule).id = calls[p].in.id
          /\ Some(ValueOf(calls[p].data.schedule).ownerUserId) = calls[p].user

\* C19: across every step no schedule's updatedAt decreases, and in every
\* state no schedule's updatedAt is earlier than its createdAt.
C19_UpdatedAtNeverDecreases ==
    /\ [](\A s \in Rows(Schedules) : s.updatedAt >= s.createdAt)
    /\ [][\A s \in Rows(Schedules), t \in Rows(Schedules') :
           s.id = t.id => t.updatedAt >= s.updatedAt]_vars

\* The schedule records, and the participant and suggestion records, in
\* the payload of a call that returned success.
PayloadSchedules(c) ==
    CASE c.op = "createSchedule" -> {c.data.schedule}
      [] c.op = "updateSchedule" ->
            IF IsDefined(c.data.schedule) THEN {ValueOf(c.data.schedule)} ELSE {}
      [] c.op = "getScheduleWithDetails" -> {c.data.schedule}
      [] c.op = "listMySchedules" -> Rows(c.data.items)
      [] OTHER -> {}
PayloadChildren(c) ==
    CASE c.op = "getScheduleWithDetails" ->
            Rows(c.data.participants) \cup Rows(c.data.suggestions)
      [] c.op = "upsertParticipant" -> Rows(c.data.participants)
      [] c.op = "upsertSuggestion" -> Rows(c.data.suggestions)
      [] OTHER -> {}

\* C20: in the payload of every call that returned success, under every
\* interleaving, every schedule record is owned by the caller, and every
\* participant and suggestion record has the scheduleId the caller named,
\* which the guard found owned by the caller and which no other user's
\* schedule has.
C20_PayloadsHoldOwnRowsOnly ==
    \A p \in Slots :
       LET c == calls[p]
       IN  Succeeded(c)
           => /\ \A r \in PayloadSchedules(c) : Some(r.ownerUserId) = c.user
              /\ \A r \in PayloadChildren(c) :
                    /\ r.scheduleId = TargetId(c)
                    /\ Some(ValueOf(c.schedule).ownerUserId) = c.user
                    /\ \A s \in Rows(Schedules) :
                          s.id = r.scheduleId => Some(s.ownerUserId) = c.user

\* C20 witness: a user listed their schedules and got their own one, while
\* the other user's schedule, first in the table, is not in the payload.
C20_Witness ==
    \E p \in Slots :
       /\ Succeeded(calls[p])
       /\ calls[p].op = "listMySchedules"
       /\ Len(calls[p].data.items) = 1
       /\ calls[p].data.total = 1
       /\ Len(Schedules) = 2
       /\ Some(Schedules[1].ownerUserId) # calls[p].user

====
